---- MODULE Spec2Model ----
(***************************************************************************)
(* LampFire (src/src/main.c): an ATtiny85 firmware that drives two lamps   *)
(* with hardware PWM whose duty cycles are drawn from a 16-bit LFSR.       *)
(*                                                                         *)
(* The state is the firmware's global randreg, the I/O registers it        *)
(* writes, the locals of main's loop, and main's position (pc).  A few     *)
(* history variables record what the last call did so that properties of   *)
(* a call can be stated on the state after it:                             *)
(*   arg       randreg on entry to the most recent function call           *)
(*   ret       value returned by the most recent function call             *)
(*   drawn     values returned by pseudorandom16 in the current loop cycle *)
(*             (or in the current call, in the function-level harness)     *)
(*   sinceWrite milliseconds spent in _delay_ms since the last write of an *)
(*             I/O register (since reset, before the first write)          *)
(*   waits     number of _delay_ms(1U) calls made in the current cycle     *)
(*   start     randreg before the first draw of a counted run of draws     *)
(*   ncalls    number of draws made in a counted run of draws (both are    *)
(*             used only where pseudorandom16 is iterated on its own)      *)
(***************************************************************************)
EXTENDS Integers, Sequences, FiniteSets, TLC

VARIABLES pc, randreg, DDRB, PORTB, TCCR0A, TCCR0B, OCR0A, OCR0B,
          random_cycle_delay, i, sinceWrite, drawn, waits, arg, ret,
          start, ncalls

vars == <<pc, randreg, DDRB, PORTB, TCCR0A, TCCR0B, OCR0A, OCR0B,
          random_cycle_delay, i, sinceWrite, drawn, waits, arg, ret,
          start, ncalls>>

regs == <<DDRB, PORTB, TCCR0A, TCCR0B, OCR0A, OCR0B>>

(***************************************************************************)
(* Program constants.                                                      *)
(***************************************************************************)
LAMP_MIN_PWM == 50

\* bit numbers of the pins and of the timer 0 control bits
LAMP_0_PIN == 0
LAMP_1_PIN == 1
LAMP_0_DDR_PIN == 0
LAMP_1_DDR_PIN == 1
COM0A1 == 7
COM0B1 == 5
WGM00 == 0
WGM01 == 1
CS00 == 0
CS02 == 2

\* widths of uint16_t and uint8_t
Word16 == 65536
Byte8 == 256

\* modulus of the duty cycle reduction, modulus of the delay reduction
DutyModulus == 255
DelayModulus == 50

\* the startup delays, in milliseconds
SettleMs == 100
SelfTestMs == 750

(***************************************************************************)
(* Bit operations on register values.                                      *)
(***************************************************************************)
Pow2(n) == 2 ^ n

\* (x >> n) & 1
Bit(x, n) == (x \div Pow2(n)) % 2

\* x |= _BV(n)
SetBit(x, n) == IF Bit(x, n) = 1 THEN x ELSE x + Pow2(n)

\* x &= ~_BV(n)
ClearBit(x, n) == IF Bit(x, n) = 1 THEN x - Pow2(n) ELSE x

\* newbit ^= 1
Xor1(b) == 1 - b

(***************************************************************************)
(* Variants of pseudorandom16 with one slip each.                          *)
(***************************************************************************)
\* the third tap taken at bit 13 (mask 0x2000) instead of bit 12 (0x1000)
pseudorandom16_tap13(r) ==
    LET r0 == IF r = 0 THEN 1 ELSE r
        n1 == IF Bit(r0, 15) = 1 THEN 1 ELSE 0
        n2 == IF Bit(r0, 14) = 1 THEN Xor1(n1) ELSE n1
        n3 == IF Bit(r0, 13) = 1 THEN Xor1(n2) ELSE n2
        n4 == IF Bit(r0, 3) = 1 THEN Xor1(n3) ELSE n3
        new == ((r0 * 2) + n4) % Word16
    IN  [randreg |-> new, ret |-> new]

\* the zero check left out
pseudorandom16_noguard(r) ==
    LET n1 == IF Bit(r, 15) = 1 THEN 1 ELSE 0
        n2 == IF Bit(r, 14) = 1 THEN Xor1(n1) ELSE n1
        n3 == IF Bit(r, 12) = 1 THEN Xor1(n2) ELSE n2
        n4 == IF Bit(r, 3) = 1 THEN Xor1(n3) ELSE n3
        new == ((r * 2) + n4) % Word16
    IN  [randreg |-> new, ret |-> new]

(***************************************************************************)
(* pseudorandom16: the new value of randreg and the value returned.        *)
(***************************************************************************)
pseudorandom16(r) ==
    LET r0 == IF r = 0 THEN 1 ELSE r
        n0 == 0
        n1 == IF Bit(r0, 15) = 1 THEN 1 ELSE n0
        n2 == IF Bit(r0, 14) = 1 THEN Xor1(n1) ELSE n1
        n3 == IF Bit(r0, 12) = 1 THEN Xor1(n2) ELSE n2
        n4 == IF Bit(r0, 3) = 1 THEN Xor1(n3) ELSE n3
        new == ((r0 * 2) + n4) % Word16
    IN  [randreg |-> new, ret |-> new]

(***************************************************************************)
(* Variants of get_duty_cycle with one slip each.                          *)
(***************************************************************************)
\* the floor left out
get_duty_cycle_nofloor(r) ==
    LET d == pseudorandom16(r)
        m == d.ret % DutyModulus
    IN  [randreg |-> d.randreg, ret |-> m % Byte8, drawn |-> <<d.ret>>]

\* the reduction taken modulo 256 instead of 255
get_duty_cycle_mod256(r) ==
    LET d == pseudorandom16(r)
        m == d.ret % Byte8
        c == IF m < LAMP_MIN_PWM THEN LAMP_MIN_PWM ELSE m
    IN  [randreg |-> d.randreg, ret |-> c % Byte8, drawn |-> <<d.ret>>]

(***************************************************************************)
(* get_duty_cycle: one draw, reduced modulo 255 and floored at             *)
(* LAMP_MIN_PWM, returned as uint8_t.  drawn lists the draws it made.      *)
(***************************************************************************)
get_duty_cycle(r) ==
    LET d == pseudorandom16(r)
        m == d.ret % DutyModulus
        c == IF m < LAMP_MIN_PWM THEN LAMP_MIN_PWM ELSE m
    IN  [randreg |-> d.randreg, ret |-> c % Byte8, drawn |-> <<d.ret>>]

(***************************************************************************)
(* The state at reset: randreg has static storage and no initialiser, so   *)
(* it is zero; the I/O registers hold their reset value 0.                 *)
(***************************************************************************)
InitRest ==
    /\ DDRB = 0 /\ PORTB = 0
    /\ TCCR0A = 0 /\ TCCR0B = 0
    /\ OCR0A = 0 /\ OCR0B = 0
    /\ random_cycle_delay = 0 /\ i = 0
    /\ sinceWrite = 0 /\ drawn = <<>> /\ waits = 0
    /\ arg = 0 /\ ret = 0
    /\ start = 0 /\ ncalls = 0

\* variant: randreg given a non-zero initialiser
Init_seeded ==
    /\ pc = "settle"
    /\ randreg = 1
    /\ InitRest

Init ==
    /\ pc = "settle"
    /\ randreg = 0
    /\ InitRest

(***************************************************************************)
(* main, startup: one action per statement.                                *)
(***************************************************************************)
loopLocals == <<random_cycle_delay, i, drawn, waits, arg, ret, start, ncalls>>

\* _delay_ms(100)
Settle ==
    /\ pc = "settle"
    /\ sinceWrite' = sinceWrite + SettleMs
    /\ pc' = "ddr0"
    /\ UNCHANGED <<randreg, regs, loopLocals>>

\* LAMP_0_DDR |= _BV(LAMP_0_DDR_PIN)
Ddr0 ==
    /\ pc = "ddr0"
    /\ DDRB' = SetBit(DDRB, LAMP_0_DDR_PIN)
    /\ sinceWrite' = 0
    /\ pc' = "ddr1"
    /\ UNCHANGED <<randreg, PORTB, TCCR0A, TCCR0B, OCR0A, OCR0B, loopLocals>>

\* LAMP_1_DDR |= _BV(LAMP_1_DDR_PIN)
Ddr1 ==
    /\ pc = "ddr1"
    /\ DDRB' = SetBit(DDRB, LAMP_1_DDR_PIN)
    /\ sinceWrite' = 0
    /\ pc' = "lamp0_on"
    /\ UNCHANGED <<randreg, PORTB, TCCR0A, TCCR0B, OCR0A, OCR0B, loopLocals>>

\* LAMP_0_ON
Lamp0On ==
    /\ pc = "lamp0_on"
    /\ PORTB' = SetBit(PORTB, LAMP_0_PIN)
    /\ sinceWrite' = 0
    /\ pc' = "test0"
    /\ UNCHANGED <<randreg, DDRB, TCCR0A, TCCR0B, OCR0A, OCR0B, loopLocals>>

\* _delay_ms(750)
Test0 ==
    /\ pc = "test0"
    /\ sinceWrite' = sinceWrite + SelfTestMs
    /\ pc' = "lamp0_off"
    /\ UNCHANGED <<randreg, regs, loopLocals>>

\* slip: LAMP_0_OFF left out, lamp 0 stays on
Lamp0Off_skip ==
    /\ pc = "lamp0_off"
    /\ pc' = "lamp1_on"
    /\ UNCHANGED <<randreg, regs, sinceWrite, loopLocals>>

\* LAMP_0_OFF
Lamp0Off ==
    /\ pc = "lamp0_off"
    /\ PORTB' = ClearBit(PORTB, LAMP_0_PIN)
    /\ sinceWrite' = 0
    /\ pc' = "lamp1_on"
    /\ UNCHANGED <<randreg, DDRB, TCCR0A, TCCR0B, OCR0A, OCR0B, loopLocals>>

\* LAMP_1_ON
Lamp1On ==
    /\ pc = "lamp1_on"
    /\ PORTB' = SetBit(PORTB, LAMP_1_PIN)
    /\ sinceWrite' = 0
    /\ pc' = "test1"
    /\ UNCHANGED <<randreg, DDRB, TCCR0A, TCCR0B, OCR0A, OCR0B, loopLocals>>

\* _delay_ms(750)
Test1 ==
    /\ pc = "test1"
    /\ sinceWrite' = sinceWrite + SelfTestMs
    /\ pc' = "lamp1_off"
    /\ UNCHANGED <<randreg, regs, loopLocals>>

\* LAMP_1_OFF
Lamp1Off ==
    /\ pc = "lamp1_off"
    /\ PORTB' = ClearBit(PORTB, LAMP_1_PIN)
    /\ sinceWrite' = 0
    /\ pc' = "com0a1"
    /\ UNCHANGED <<randreg, DDRB, TCCR0A, TCCR0B, OCR0A, OCR0B, loopLocals>>

\* TCCR0A |= _BV(COM0A1)
SetCom0a1 ==
    /\ pc = "com0a1"
    /\ TCCR0A' = SetBit(TCCR0A, COM0A1)
    /\ sinceWrite' = 0
    /\ pc' = "com0b1"
    /\ UNCHANGED <<randreg, DDRB, PORTB, TCCR0B, OCR0A, OCR0B, loopLocals>>

\* TCCR0A |= _BV(COM0B1)
SetCom0b1 ==
    /\ pc = "com0b1"
    /\ TCCR0A' = SetBit(TCCR0A, COM0B1)
    /\ sinceWrite' = 0
    /\ pc' = "wgm00"
    /\ UNCHANGED <<randreg, DDRB, PORTB, TCCR0B, OCR0A, OCR0B, loopLocals>>

\* TCCR0A |= _BV(WGM00)
SetWgm00 ==
    /\ pc = "wgm00"
    /\ TCCR0A' = SetBit(TCCR0A, WGM00)
    /\ sinceWrite' = 0
    /\ pc' = "wgm01"
    /\ UNCHANGED <<randreg, DDRB, PORTB, TCCR0B, OCR0A, OCR0B, loopLocals>>

\* TCCR0A |= _BV(WGM01)
SetWgm01 ==
    /\ pc = "wgm01"
    /\ TCCR0A' = SetBit(TCCR0A, WGM01)
    /\ sinceWrite' = 0
    /\ pc' = "cs00"
    /\ UNCHANGED <<randreg, DDRB, PORTB, TCCR0B, OCR0A, OCR0B, loopLocals>>

\* TCCR0B |= _BV(CS00)
SetCs00 ==
    /\ pc = "cs00"
    /\ TCCR0B' = SetBit(TCCR0B, CS00)
    /\ sinceWrite' = 0
    /\ pc' = "cs02"
    /\ UNCHANGED <<randreg, DDRB, PORTB, TCCR0A, OCR0A, OCR0B, loopLocals>>

\* TCCR0B |= _BV(CS02)
SetCs02 ==
    /\ pc = "cs02"
    /\ TCCR0B' = SetBit(TCCR0B, CS02)
    /\ sinceWrite' = 0
    /\ pc' = "ocr0a_init"
    /\ UNCHANGED <<randreg, DDRB, PORTB, TCCR0A, OCR0A, OCR0B, loopLocals>>

\* OCR0A = LAMP_MIN_PWM
InitOcr0a ==
    /\ pc = "ocr0a_init"
    /\ OCR0A' = LAMP_MIN_PWM
    /\ sinceWrite' = 0
    /\ pc' = "ocr0b_init"
    /\ UNCHANGED <<randreg, DDRB, PORTB, TCCR0A, TCCR0B, OCR0B, loopLocals>>

\* slip: the initialisation of OCR0B left out
InitOcr0b_skip ==
    /\ pc = "ocr0b_init"
    /\ pc' = "duty0"
    /\ UNCHANGED <<randreg, regs, sinceWrite, loopLocals>>

\* OCR0B = LAMP_MIN_PWM
InitOcr0b ==
    /\ pc = "ocr0b_init"
    /\ OCR0B' = LAMP_MIN_PWM
    /\ sinceWrite' = 0
    /\ pc' = "duty0"
    /\ UNCHANGED <<randreg, DDRB, PORTB, TCCR0A, TCCR0B, OCR0A, loopLocals>>

Startup ==
    \/ Settle \/ Ddr0 \/ Ddr1
    \/ Lamp0On \/ Test0 \/ Lamp0Off
    \/ Lamp1On \/ Test1 \/ Lamp1Off
    \/ SetCom0a1 \/ SetCom0b1 \/ SetWgm00 \/ SetWgm01
    \/ SetCs00 \/ SetCs02
    \/ InitOcr0a \/ InitOcr0b

(***************************************************************************)
(* main, the application loop.                                             *)
(***************************************************************************)
\* slip: the generator stirred with the time waited in the previous cycle
Duty0_timeSeeded ==
    /\ pc = "duty0"
    /\ LET g == get_duty_cycle((randreg + sinceWrite) % Word16) IN
         /\ randreg' = g.randreg
         /\ OCR0A' = g.ret
         /\ ret' = g.ret
         /\ drawn' = g.drawn
    /\ arg' = randreg
    /\ waits' = 0
    /\ sinceWrite' = 0
    /\ pc' = "duty1"
    /\ UNCHANGED <<DDRB, PORTB, TCCR0A, TCCR0B, OCR0B, random_cycle_delay, i>>
    /\ UNCHANGED <<start, ncalls>>

\* OCR0A = get_duty_cycle()       (first statement of a cycle)
Duty0 ==
    /\ pc = "duty0"
    /\ LET g == get_duty_cycle(randreg) IN
         /\ randreg' = g.randreg
         /\ OCR0A' = g.ret
         /\ ret' = g.ret
         /\ drawn' = g.drawn
    /\ arg' = randreg
    /\ waits' = 0
    /\ sinceWrite' = 0
    /\ pc' = "duty1"
    /\ UNCHANGED <<DDRB, PORTB, TCCR0A, TCCR0B, OCR0B, random_cycle_delay, i>>
    /\ UNCHANGED <<start, ncalls>>

\* slip: channel 1 set from the value computed for channel 0, no second draw
Duty1_sameDraw ==
    /\ pc = "duty1"
    /\ OCR0B' = OCR0A
    /\ sinceWrite' = 0
    /\ pc' = "delay"
    /\ UNCHANGED <<randreg, DDRB, PORTB, TCCR0A, TCCR0B, OCR0A, random_cycle_delay,
                   i, drawn, waits, arg, ret>>
    /\ UNCHANGED <<start, ncalls>>

\* OCR0B = get_duty_cycle()
Duty1 ==
    /\ pc = "duty1"
    /\ LET g == get_duty_cycle(randreg) IN
         /\ randreg' = g.randreg
         /\ OCR0B' = g.ret
         /\ ret' = g.ret
         /\ drawn' = drawn \o g.drawn
    /\ arg' = randreg
    /\ sinceWrite' = 0
    /\ pc' = "delay"
    /\ UNCHANGED <<DDRB, PORTB, TCCR0A, TCCR0B, OCR0A, random_cycle_delay, i, waits>>
    /\ UNCHANGED <<start, ncalls>>

\* slip: the reduction written as %= 51
DelayDraw_mod51 ==
    /\ pc = "delay"
    /\ LET p == pseudorandom16(randreg) IN
         /\ randreg' = p.randreg
         /\ random_cycle_delay' = p.ret % (DelayModulus + 1)
         /\ ret' = p.ret
         /\ drawn' = Append(drawn, p.ret)
    /\ arg' = randreg
    /\ i' = 0
    /\ pc' = "wait"
    /\ UNCHANGED <<regs, sinceWrite, waits>>
    /\ UNCHANGED <<start, ncalls>>

\* random_cycle_delay = pseudorandom16(); random_cycle_delay %= 50; i = 0
DelayDraw ==
    /\ pc = "delay"
    /\ LET p == pseudorandom16(randreg) IN
         /\ randreg' = p.randreg
         /\ random_cycle_delay' = p.ret % DelayModulus
         /\ ret' = p.ret
         /\ drawn' = Append(drawn, p.ret)
    /\ arg' = randreg
    /\ i' = 0
    /\ pc' = "wait"
    /\ UNCHANGED <<regs, sinceWrite, waits>>
    /\ UNCHANGED <<start, ncalls>>

\* slip: the loop test written i <= random_cycle_delay, one wait too many
WaitStep_inclusive ==
    /\ pc = "wait"
    /\ i <= random_cycle_delay
    /\ sinceWrite' = sinceWrite + 1
    /\ waits' = waits + 1
    /\ i' = (i + 1) % Byte8
    /\ UNCHANGED <<pc, randreg, regs, random_cycle_delay, drawn, arg, ret>>
    /\ UNCHANGED <<start, ncalls>>

\* slip: lamp 0 switched through its port bit while waiting
WaitStep_portWrite ==
    /\ pc = "wait"
    /\ i < random_cycle_delay
    /\ PORTB' = SetBit(PORTB, LAMP_0_PIN)
    /\ sinceWrite' = 0
    /\ waits' = waits + 1
    /\ i' = (i + 1) % Byte8
    /\ UNCHANGED <<pc, randreg, DDRB, TCCR0A, TCCR0B, OCR0A, OCR0B,
                   random_cycle_delay, drawn, arg, ret>>
    /\ UNCHANGED <<start, ncalls>>

\* i < random_cycle_delay: _delay_ms(1U); i++
WaitStep ==
    /\ pc = "wait"
    /\ i < random_cycle_delay
    /\ sinceWrite' = sinceWrite + 1
    /\ waits' = waits + 1
    /\ i' = (i + 1) % Byte8
    /\ UNCHANGED <<pc, randreg, regs, random_cycle_delay, drawn, arg, ret>>
    /\ UNCHANGED <<start, ncalls>>

\* slip: the while loop left after the first cycle, main returns
WaitDone_exit ==
    /\ pc = "wait"
    /\ ~(i < random_cycle_delay)
    /\ pc' = "return"
    /\ UNCHANGED <<randreg, regs, random_cycle_delay, i, sinceWrite, drawn, waits, arg, ret>>
    /\ UNCHANGED <<start, ncalls>>

\* !(i < random_cycle_delay): leave the for loop, next iteration of while(1)
WaitDone ==
    /\ pc = "wait"
    /\ ~(i < random_cycle_delay)
    /\ pc' = "duty0"
    /\ UNCHANGED <<randreg, regs, random_cycle_delay, i, sinceWrite, drawn, waits, arg, ret>>
    /\ UNCHANGED <<start, ncalls>>

Loop == Duty0 \/ Duty1 \/ DelayDraw \/ WaitStep \/ WaitDone

Next == Startup \/ Loop

Spec == Init /\ [][Next]_vars

(***************************************************************************)
(* The same program started with an arbitrary seed in randreg: every       *)
(* 16-bit value the generator's state can hold.                            *)
(***************************************************************************)
InitAny ==
    /\ pc = "settle"
    /\ randreg \in 0 .. (Word16 - 1)
    /\ InitRest

SpecAny == InitAny /\ [][Next]_vars

(***************************************************************************)
(* The two functions on their own: called from every 16-bit value of       *)
(* randreg, any number of times in any order.                              *)
(***************************************************************************)
InitFn ==
    /\ pc = "call"
    /\ randreg \in 0 .. (Word16 - 1)
    /\ InitRest

\* a call of pseudorandom16()
CallPseudorandom16 ==
    /\ pc = "call"
    /\ LET p == pseudorandom16(randreg) IN
         /\ randreg' = p.randreg
         /\ ret' = p.ret
         /\ drawn' = <<p.ret>>
    /\ arg' = randreg
    /\ pc' = "ret_prg"
    /\ UNCHANGED <<regs, random_cycle_delay, i, sinceWrite, waits>>
    /\ UNCHANGED <<start, ncalls>>

\* a call of get_duty_cycle()
CallGetDutyCycle ==
    /\ pc = "call"
    /\ LET g == get_duty_cycle(randreg) IN
         /\ randreg' = g.randreg
         /\ ret' = g.ret
         /\ drawn' = g.drawn
    /\ arg' = randreg
    /\ pc' = "ret_duty"
    /\ UNCHANGED <<regs, random_cycle_delay, i, sinceWrite, waits>>
    /\ UNCHANGED <<start, ncalls>>

\* the caller goes on to its next call
Return ==
    /\ pc \in {"ret_prg", "ret_duty"}
    /\ pc' = "call"
    /\ UNCHANGED <<randreg, regs, random_cycle_delay, i, sinceWrite, drawn, waits, arg, ret>>
    /\ UNCHANGED <<start, ncalls>>

NextFn == CallPseudorandom16 \/ CallGetDutyCycle \/ Return

SpecFn == InitFn /\ [][NextFn]_vars

(***************************************************************************)
(* pseudorandom16 iterated on its own from a chosen state, counting the    *)
(* draws, to measure the length of the generator's cycle.                  *)
(***************************************************************************)
\* the most draws counted in one run: the 65535 non-zero states and one more
MaxDraws == 65536

\* the states the counted runs start from
PeriodStarts == {1, 2, 32768, 44257, 65535}

InitPeriod ==
    /\ pc = "call"
    /\ randreg \in PeriodStarts
    /\ start = randreg
    /\ ncalls = 0
    /\ DDRB = 0 /\ PORTB = 0
    /\ TCCR0A = 0 /\ TCCR0B = 0
    /\ OCR0A = 0 /\ OCR0B = 0
    /\ random_cycle_delay = 0 /\ i = 0
    /\ sinceWrite = 0 /\ drawn = <<>> /\ waits = 0
    /\ arg = 0 /\ ret = 0

\* one more call of pseudorandom16()
CountedDraw ==
    /\ pc = "call"
    /\ ncalls < MaxDraws
    /\ LET p == pseudorandom16(randreg) IN
         /\ randreg' = p.randreg
         /\ ret' = p.ret
         /\ drawn' = <<p.ret>>
    /\ arg' = randreg
    /\ ncalls' = ncalls + 1
    /\ UNCHANGED <<pc, regs, random_cycle_delay, i, sinceWrite, waits, start>>

NextPeriod == CountedDraw

SpecPeriod == InitPeriod /\ [][NextPeriod]_vars

(***************************************************************************)
(* Scheduling: one sequential thread on a CPU that always executes its     *)
(* next instruction, and every _delay_ms busy-wait returns.                *)
(***************************************************************************)
FairSpec == Spec /\ WF_vars(Next)

(***************************************************************************)
(* The properties.  The expected values are computed from the statement    *)
(* of the algorithm, bit by bit, not from the operators above.             *)
(***************************************************************************)
\* the state the shift acts on: 1 in place of 0
Effective(s) == IF s = 0 THEN 1 ELSE s

\* XOR of bits 15, 14, 12 and 3
FeedbackBit(s) == (Bit(s, 15) + Bit(s, 14) + Bit(s, 12) + Bit(s, 3)) % 2

\* ((s' << 1) + fb) mod 2^16
ExpectedNext(s) == ((Effective(s) * 2) + FeedbackBit(Effective(s))) % 65536

\* max(50, D mod 255)
ExpectedDuty(D) == IF D % 255 >= 50 THEN D % 255 ELSE 50

LoopPcs == {"duty0", "duty1", "delay", "wait"}

\* C1: after a call of pseudorandom16 from state s, randreg is
\* ((s' << 1) + fb) mod 2^16 with s' = 1 for s = 0 and fb the XOR of bits
\* 15, 14, 12, 3 of s'; the value returned is the new randreg; exactly one
\* draw was made; 0x8000 gives 0x0001 and 0x4000 gives 0x8001.
C1_DrawStep ==
    pc = "ret_prg" =>
        /\ randreg = ExpectedNext(arg)
        /\ ret = randreg
        /\ drawn = <<randreg>>
        /\ (arg = 32768 => randreg = 1)
        /\ (arg = 16384 => randreg = 32769)

C1_Witness == pc = "ret_prg" /\ arg = 16384 /\ ret = 32769 /\ randreg = 32769

\* C2: once a draw has been made (by either function, from any 16-bit
\* state, 0 included) randreg is not 0, and stays so over any further
\* calls; from state 0 the first draw yields 0x0002.
C2_NeverZero ==
    /\ (drawn # <<>> => randreg # 0)
    /\ (pc = "ret_prg" /\ arg = 0 => ret = 2 /\ randreg = 2)

C2_Witness == pc = "ret_prg" /\ arg = 0 /\ randreg = 2

\* C3: get_duty_cycle makes a single draw D and returns max(50, D mod 255):
\* never below 50, and exactly D mod 255 whenever that is at least 50.
C3_DutyFloor ==
    pc = "ret_duty" =>
        /\ Len(drawn) = 1
        /\ drawn[1] = ExpectedNext(arg)
        /\ randreg = drawn[1]
        /\ ret = ExpectedDuty(drawn[1])
        /\ ret >= 50
        /\ (drawn[1] % 255 >= 50 => ret = drawn[1] % 255)

C3_Witness == pc = "ret_duty" /\ drawn[1] % 255 = 200 /\ ret = 200

\* C4: once both compare registers have been initialised (from the first
\* statement of the loop on), for every seed and after any number of
\* cycles, OCR0A and OCR0B are within [50, 254].
C4_ThresholdRange ==
    pc \in LoopPcs =>
        /\ OCR0A >= 50 /\ OCR0A <= 254
        /\ OCR0B >= 50 /\ OCR0B <= 254

C4_Witness == pc = "wait" /\ OCR0A = 254 /\ OCR0B > 50 /\ OCR0B < 254

\* lamp n is on: its PORTB bit is set
LampOn(n) == Bit(PORTB, n) = 1

\* both pins are outputs
BothOutputs == Bit(DDRB, 0) = 1 /\ Bit(DDRB, 1) = 1

\* timer 0 fully configured: COM0A1, COM0B1, WGM00, WGM01 and CS00, CS02
PwmConfigured == TCCR0A = 128 + 32 + 2 + 1 /\ TCCR0B = 4 + 1

BeforePwmPcs == {"settle", "ddr0", "ddr1", "lamp0_on", "test0", "lamp0_off",
                 "lamp1_on", "test1", "lamp1_off", "com0a1"}

\* C5: startup order: 100 ms settle; both pins made outputs; lamp 0 on
\* alone for 750 ms; lamp 0 off; lamp 1 on alone for 750 ms; lamp 1 off;
\* only then the timer is configured and the loop entered.  The two lamps
\* are never on together and both are off in the loop.
C5_StartupOrder ==
    /\ ~(LampOn(0) /\ LampOn(1))
    /\ (pc = "settle" => sinceWrite = 0 /\ DDRB = 0 /\ PORTB = 0)
    /\ (pc = "ddr0" => sinceWrite = 100 /\ DDRB = 0 /\ PORTB = 0)
    /\ (pc = "lamp0_on" => BothOutputs /\ PORTB = 0)
    /\ (pc = "test0" => BothOutputs /\ LampOn(0) /\ ~LampOn(1) /\ sinceWrite = 0)
    /\ (pc = "lamp0_off" => BothOutputs /\ LampOn(0) /\ ~LampOn(1) /\ sinceWrite = 750)
    /\ (pc = "lamp1_on" => PORTB = 0)
    /\ (pc = "test1" => BothOutputs /\ LampOn(1) /\ ~LampOn(0) /\ sinceWrite = 0)
    /\ (pc = "lamp1_off" => BothOutputs /\ LampOn(1) /\ ~LampOn(0) /\ sinceWrite = 750)
    /\ (pc = "com0a1" => PORTB = 0)
    /\ (pc \in BeforePwmPcs => TCCR0A = 0 /\ TCCR0B = 0 /\ OCR0A = 0 /\ OCR0B = 0
                               /\ drawn = <<>>)
    /\ (pc \in LoopPcs => PORTB = 0 /\ BothOutputs /\ PwmConfigured)

C5_Witness ==
    pc = "lamp1_off" /\ LampOn(1) /\ ~LampOn(0) /\ sinceWrite = 750

\* C6: a cycle makes exactly three draws, each the successor of the one
\* before, the first the successor of the last draw of the previous cycle:
\* OCR0A is derived from the first, OCR0B from the second, the delay from
\* the third; no draw is made while waiting.
C6_ThreeDraws ==
    /\ (pc = "duty0" =>
          \/ drawn = <<>>
          \/ (Len(drawn) = 3 /\ randreg = drawn[3]))
    /\ (pc = "duty1" =>
          /\ Len(drawn) = 1
          /\ drawn[1] = ExpectedNext(arg)
          /\ randreg = drawn[1]
          /\ OCR0A = ExpectedDuty(drawn[1]))
    /\ (pc = "delay" =>
          /\ Len(drawn) = 2
          /\ arg = drawn[1]
          /\ drawn[2] = ExpectedNext(drawn[1])
          /\ randreg = drawn[2]
          /\ OCR0A = ExpectedDuty(drawn[1])
          /\ OCR0B = ExpectedDuty(drawn[2]))
    /\ (pc = "wait" =>
          /\ Len(drawn) = 3
          /\ arg = drawn[2]
          /\ drawn[2] = ExpectedNext(drawn[1])
          /\ drawn[3] = ExpectedNext(drawn[2])
          /\ randreg = drawn[3]
          /\ OCR0A = ExpectedDuty(drawn[1])
          /\ OCR0B = ExpectedDuty(drawn[2])
          /\ random_cycle_delay = drawn[3] % 50)

C6_Witness ==
    /\ pc = "wait" /\ Len(drawn) = 3 /\ i > 0
    /\ OCR0A > 50 /\ OCR0B > 50 /\ OCR0A # OCR0B

\* C7: the delay computed in a cycle is the value drawn for it mod 50,
\* hence in [0, 49].
C7_DelayBound ==
    /\ random_cycle_delay >= 0 /\ random_cycle_delay < 50
    /\ (pc = "wait" => random_cycle_delay = ret % 50 /\ ret = ExpectedNext(arg))

C7_Witness == pc = "wait" /\ random_cycle_delay = 49 /\ ret % 50 = 49

\* C8 as stated: before the first draw randreg holds a non-zero value.
C8_SeedNonZero == drawn = <<>> => randreg # 0

\* C8, amended: before the first draw randreg holds 0, the value of an
\* object of static storage without initialiser; the first draw acts on 1
\* in its place and leaves 0x0002.
C8_SeedZero ==
    /\ (drawn = <<>> => randreg = 0)
    /\ (pc = "duty1" /\ arg = 0 => drawn = <<2>> /\ randreg = 2)

C8_Witness == pc = "duty0" /\ drawn = <<>> /\ randreg = 0 /\ OCR0B = 50

\* C9: the loop never ends and never blocks: OCR0A and OCR0B are written
\* again and again, every wait is followed by the start of a new cycle,
\* and some step is always possible.
C9_LoopForever ==
    /\ []<>(pc = "duty1")
    /\ []<>(pc = "delay")
    /\ ((pc = "wait") ~> (pc = "duty0"))
    /\ [](ENABLED Next)

C9_Witness == pc = "wait" /\ random_cycle_delay = 49 /\ i = 48 /\ waits = 48

C11_FullSwing ==
    /\ <>(pc = "duty1" /\ OCR0A = 50)
    /\ <>(pc = "duty1" /\ OCR0A = 254)
    /\ <>(pc = "delay" /\ OCR0B = 50)
    /\ <>(pc = "delay" /\ OCR0B = 254)

C11_Witness == pc = "delay" /\ OCR0B = 254 /\ ret = 254 /\ OCR0A < 254

\* C12: the draws, the duties and the delay are a function of the PRG state
\* and of nothing else: whatever the rest of the state (registers, loop
\* counter, time waited, earlier cycles), a step of the loop that draws
\* takes randreg to its successor and writes the value derived from that
\* successor, and no other step touches randreg, the duties or the delay.
\* Hence two runs that start from the same PRG state make the same draws
\* and write the same duties and delays, cycle after cycle.
C12_FunctionOfState ==
    [][ /\ (pc = "duty0" =>
              /\ randreg' = ExpectedNext(randreg)
              /\ OCR0A' = ExpectedDuty(randreg')
              /\ OCR0B' = OCR0B
              /\ random_cycle_delay' = random_cycle_delay)
        /\ (pc = "duty1" =>
              /\ randreg' = ExpectedNext(randreg)
              /\ OCR0B' = ExpectedDuty(randreg')
              /\ OCR0A' = OCR0A
              /\ random_cycle_delay' = random_cycle_delay)
        /\ (pc = "delay" =>
              /\ randreg' = ExpectedNext(randreg)
              /\ random_cycle_delay' = randreg' % 50
              /\ OCR0A' = OCR0A /\ OCR0B' = OCR0B)
        /\ (pc = "wait" =>
              /\ randreg' = randreg
              /\ random_cycle_delay' = random_cycle_delay
              /\ OCR0A' = OCR0A /\ OCR0B' = OCR0B)
        /\ (pc \notin LoopPcs => randreg' = randreg)
      ]_vars

\* a later cycle has begun: the loop counter and the time waited still hold
\* what the previous cycle left
C12_Witness ==
    /\ pc = "duty1" /\ i = 49 /\ random_cycle_delay = 49
    /\ OCR0A = ExpectedDuty(randreg) /\ OCR0A > 50

\* C13: from a non-zero state the draws come back to the starting state
\* after exactly 65535 draws and not before; the 65535 states met on the
\* way are therefore all different and, none being 0, are all the non-zero
\* 16-bit states: one cycle of maximal length, no fixed point, no shorter
\* cycle.
C13_MaximalPeriod ==
    /\ (ncalls > 0 => randreg # 0)
    /\ (ncalls > 0 /\ ncalls < 65535 => randreg # start)
    /\ (ncalls = 65535 => randreg = start)
    /\ (ncalls = 1 => randreg # start)

C13_Witness == ncalls = 65535 /\ start = 44257 /\ randreg = 44257

\* a compare output is connected to its pin
OutputsConnected == Bit(TCCR0A, 7) = 1 \/ Bit(TCCR0A, 5) = 1

\* a clock is selected for timer 0 (CS02:0 is not 000): the timer counts
ClockSelected == TCCR0B % 8 # 0

\* C14: whenever the compare outputs are connected and the timer's clock is
\* selected, both compare registers are within [50, 254].
C14_FloorBeforePwm ==
    OutputsConnected /\ ClockSelected =>
        /\ OCR0A >= 50 /\ OCR0A <= 254
        /\ OCR0B >= 50 /\ OCR0B <= 254

\* C15: when the loop is first entered, before its first draw, OCR0A and
\* OCR0B both hold the floor 50.
C15_LoopEntryFloor ==
    pc = "duty0" /\ drawn = <<>> => OCR0A = 50 /\ OCR0B = 50

C15_Witness ==
    pc = "duty0" /\ drawn = <<>> /\ OCR0A = 50 /\ OCR0B = 50 /\ PwmConfigured

\* C16: a cycle with delay d makes exactly d waits of one millisecond each
\* and then starts the next cycle; with d = 0 it makes none.
C16_ExactWaits ==
    /\ (pc = "wait" =>
          /\ waits = i
          /\ waits <= random_cycle_delay
          /\ sinceWrite = waits)
    /\ (pc = "duty0" /\ drawn # <<>> =>
          /\ waits = random_cycle_delay
          /\ sinceWrite = random_cycle_delay
          /\ (random_cycle_delay = 0 => waits = 0))
    /\ (pc \in {"duty1", "delay"} => waits = 0 /\ sinceWrite = 0)

C16_Witness ==
    pc = "duty0" /\ random_cycle_delay = 49 /\ waits = 49 /\ sinceWrite = 49

\* the case d = 0 of C16 occurs too: a cycle that ends without any wait
C16_WitnessNoWait ==
    pc = "duty0" /\ Len(drawn) = 3 /\ random_cycle_delay = 0 /\ waits = 0

\* C17: once the loop has started, no step changes the direction bits, the
\* port bits or the timer's mode and prescaler, and the loop is never left:
\* they stay as startup left them.
C17_LoopFrame ==
    [][ (pc \in LoopPcs) =>
          (/\ DDRB' = DDRB /\ PORTB' = PORTB
           /\ TCCR0A' = TCCR0A /\ TCCR0B' = TCCR0B
           /\ (pc' \in LoopPcs))
      ]_vars

C17_Witness ==
    /\ pc = "duty0" /\ Len(drawn) = 3 /\ waits > 0
    /\ DDRB = 3 /\ PORTB = 0 /\ TCCR0A = 163 /\ TCCR0B = 5

====
